---- MODULE Spec2Model ----
(***************************************************************************)
(* Model of src/src/slider.ts: the slider-gap locator                      *)
(* findGapWithHighAccuracy (a double loop over the columns of a search     *)
(* window and the rows of a vertical band of a greyscale bitmap) and the   *)
(* fetch handler that validates a JSON request and calls it.               *)
(*                                                                         *)
(* The locator is modelled one loop step per action: pc is the position    *)
(* in the function, x and y are the loop variables, and reads holds the    *)
(* pixel coordinates handed to getPixelColor by the latest row scanned, so *)
(* that a property of reads in every state is one of every read. A bitmap  *)
(* is held as the rectangles it is painted from: the brightness of a pixel *)
(* is that of the topmost rectangle covering it.                           *)
(***************************************************************************)
EXTENDS Integers, FiniteSets, Sequences, TLC

VARIABLES
    req,                 \* the request the handler was given (NoRequest: direct call)
    resp,                \* the handler's response (NoResponse: none yet)
    calls,               \* number of invocations of findGapWithHighAccuracy
    bitmap,              \* bgImg.bitmap after greyscale(), as layers of
                         \* rectangles of one brightness, bottom layer first
    bgW, bgH,            \* bgImg.bitmap.width / height
    sW, sH,              \* sliderImg.bitmap.width / height
    sliderY,             \* the sliderY argument
    startX, endX,        \* the scan window [startX, endX)
    maxScore, bestX,     \* best score so far and its column
    x, y,                \* loop variables
    currentColumnScore,  \* score of column x accumulated so far
    reads,               \* coordinates passed to getPixelColor by the latest
                         \* row scanned ({}: no pixel was read yet)
    result,              \* value returned by findGapWithHighAccuracy
    pc                   \* position in the code

vars == <<req, resp, calls, bitmap, bgW, bgH, sW, sH, sliderY, startX, endX,
          maxScore, bestX, x, y, currentColumnScore, reads, result, pc>>

\* ------------------------------------------------------------- constants

\* the column margin of the scan window (sW + 5, bgW - sW - 5)
Margin == 5

\* a brightness drop counts only when diff > 15
DiffThreshold == 15

\* ---------------------------------------------------------------- bounds

\* widest scan window of the small inputs (0 = empty window)
MaxCols == 3
\* tallest background of the small inputs
MaxH == 2
\* tallest slider of the small inputs
MaxSH == 2
\* largest sliderY of the small inputs
MaxY == 1

\* ------------------------------------------------------- bounded inputs

\* slider widths of the small inputs
SliderWidths == {1, 2}

\* brightness values of the small inputs: the untouched background (100) and
\* specks that drop from it by exactly 15, by 16 and by 40
Levels == {100, 85, 84, 60}

\* brightness of the untouched background: the brightest level
Base == CHOOSE v \in Levels : \A u \in Levels : u <= v

\* the bitmap of a call whose images are not decoded yet
NoPixels == << >>
\* a direct call of the locator has no request; a handler that has not
\* returned has no response
NoRequest == [method |-> "none"]
NoResponse == [status |-> 0]

\* A rectangle of one brightness: columns x0..x1, rows y0..y1.
Rect(x0, x1, y0, y1, level) ==
    [x0 |-> x0, x1 |-> x1, y0 |-> y0, y1 |-> y1, level |-> level]

\* A W x H background of brightness Base, and a one-pixel speck on it.
Background(W, H) == Rect(0, W - 1, 0, H - 1, Base)
Speck(p, v) == Rect(p[1], p[1], p[2], p[2], v)

\* Where the specks of the small inputs fall: the columns of the scan window,
\* the column to its left and the column to its right, every row.
SpeckPositions(W, H, w) ==
    ((w + Margin - 1) .. (W - w - Margin)) \X (0 .. H - 1)

Before(p1, p2) == p1[1] < p2[1] \/ (p1[1] = p2[1] /\ p1[2] < p2[2])

\* The W x H bitmaps of the small inputs: the background with no speck, one
\* speck or two specks, each bitmap once.
Bitmaps(W, H, w) ==
    LET P == SpeckPositions(W, H, w)
        V == Levels \ {Base}
    IN  {<<Background(W, H)>>}
        \cup { <<Background(W, H), Speck(p1, v1)>> : p1 \in P, v1 \in V }
        \cup { <<Background(W, H), Speck(pp[1], v1), Speck(pp[2], v2)>> :
                  pp \in { q \in P \X P : Before(q[1], q[2]) },
                  v1 \in V, v2 \in V }

\* ------------------------------------------------------ the locator

\* bgImg.getPixelColor(px, py) followed by intToRGBA(..).r on the greyscale
\* bitmap. Coordinates outside the bitmap are clamped to the nearest edge
\* pixel (the library's default edge handling).
Clamp(v, hi) == IF v < 0 THEN 0 ELSE IF v > hi THEN hi ELSE v

\* the brightness stored for the pixel (px, py) of the bitmap
PixelAt(px, py) ==
    LET covering == { i \in DOMAIN bitmap :
                        /\ bitmap[i].x0 <= px /\ px <= bitmap[i].x1
                        /\ bitmap[i].y0 <= py /\ py <= bitmap[i].y1 }
        top == CHOOSE i \in covering : \A k \in covering : k <= i
    IN  bitmap[top].level

getPixelColor(px, py) == PixelAt(Clamp(px, bgW - 1), Clamp(py, bgH - 1))

\* the diff taken the other way round
DiffReversed(prevPixel, currPixel) == currPixel - prevPixel

\* const diff = prevPixel - currPixel
Diff(prevPixel, currPixel) == prevPixel - currPixel

\* a diff equal to the threshold counted too
AccumulateFromThreshold(score, diff) ==
    IF diff >= DiffThreshold THEN score + diff ELSE score

\* if (diff > 15) currentColumnScore += diff
Accumulate(score, diff) == IF diff > DiffThreshold THEN score + diff ELSE score

\* a tie replacing the best column
BetterOrEqual(score, best) == score >= best

\* a column of score 0 never taken as the best
BetterAndPositive(score, best) == score > best /\ score > 0

\* if (currentColumnScore > maxScore)
Better(score, best) == score > best

\* let maxScore = -1
InitialMaxScore == 0 - 1

\* the row guard off by one
RowSkippedOffByOne(row) == row > bgH

\* if (y >= bgH) continue
RowSkipped(row) == row >= bgH

\* the left margin forgotten
StartXNoMargin(w) == w

\* the left margin subtracted
StartXMinusMargin(w) == w - Margin

\* const startX = sW + 5
StartXOf(w) == w + Margin

\* the right margin forgotten
EndXNoMargin(W, w) == W - w

\* const endX = bgW - sW - 5
EndXOf(W, w) == W - w - Margin

\* lines 27-32: window and initial best
Start ==
    /\ pc = "start"
    /\ startX' = StartXOf(sW)
    /\ endX' = EndXOf(bgW, sW)
    /\ maxScore' = InitialMaxScore
    /\ bestX' = 0
    /\ x' = StartXOf(sW)
    /\ pc' = "outer"
    /\ UNCHANGED <<req, resp, calls, bitmap, bgW, bgH, sW, sH, sliderY, y,
                   currentColumnScore, reads, result>>

\* lines 35-36, 40: the outer loop test succeeds, the column's score is reset
EnterColumn ==
    /\ pc = "outer"
    /\ x < endX
    /\ currentColumnScore' = 0
    /\ y' = sliderY
    /\ pc' = "inner"
    /\ UNCHANGED <<req, resp, calls, bitmap, bgW, bgH, sW, sH, sliderY,
                   startX, endX, maxScore, bestX, x, reads, result>>

\* lines 40-42: a row at or beyond the bitmap's height is skipped
SkipRow ==
    /\ pc = "inner"
    /\ y < sliderY + sH
    /\ RowSkipped(y)
    /\ y' = y + 1
    /\ UNCHANGED <<req, resp, calls, bitmap, bgW, bgH, sW, sH, sliderY,
                   startX, endX, maxScore, bestX, x, currentColumnScore,
                   reads, result, pc>>

\* lines 40-58: one row of the band: two pixel reads, the diff, the sum
ScanRow ==
    /\ pc = "inner"
    /\ y < sliderY + sH
    /\ ~RowSkipped(y)
    /\ LET prevPixel == getPixelColor(x - 1, y)
           currPixel == getPixelColor(x, y)
       IN  currentColumnScore' =
               Accumulate(currentColumnScore, Diff(prevPixel, currPixel))
    /\ reads' = {<<x - 1, y>>, <<x, y>>}
    /\ y' = y + 1
    /\ UNCHANGED <<req, resp, calls, bitmap, bgW, bgH, sW, sH, sliderY,
                   startX, endX, maxScore, bestX, x, result, pc>>

\* lines 60-66 and the x++ of line 35: the column is compared with the best
EndColumn ==
    /\ pc = "inner"
    /\ ~(y < sliderY + sH)
    /\ IF Better(currentColumnScore, maxScore)
         THEN /\ maxScore' = currentColumnScore
              /\ bestX' = x
         ELSE UNCHANGED <<maxScore, bestX>>
    /\ x' = x + 1
    /\ pc' = "outer"
    /\ UNCHANGED <<req, resp, calls, bitmap, bgW, bgH, sW, sH, sliderY,
                   startX, endX, y, currentColumnScore, reads, result>>

\* line 71: the outer loop has ended
Return ==
    /\ pc = "outer"
    /\ ~(x < endX)
    /\ result' = bestX
    /\ pc' = "done"
    /\ UNCHANGED <<req, resp, calls, bitmap, bgW, bgH, sW, sH, sliderY,
                   startX, endX, maxScore, bestX, x, y, currentColumnScore,
                   reads>>

\* The locals of a call that has not reached line 27.
Fresh ==
    /\ startX = 0 /\ endX = 0
    /\ maxScore = 0 /\ bestX = 0
    /\ x = 0 /\ y = 0
    /\ currentColumnScore = 0
    /\ reads = {}
    /\ result = 0

\* A direct call of the exported locator, after both images are decoded
\* (line 24), on a small background with up to two specks.
Init ==
    /\ req = NoRequest
    /\ resp = NoResponse
    /\ calls = 1
    /\ sW \in SliderWidths
    /\ bgW \in (2 * sW + 2 * Margin) .. (2 * sW + 2 * Margin + MaxCols)
    /\ bgH \in 1 .. MaxH
    /\ sH \in 1 .. MaxSH
    /\ sliderY \in 0 .. MaxY
    /\ bitmap \in Bitmaps(bgW, bgH, sW)
    /\ Fresh
    /\ pc = "start"

Next ==
    \/ Start
    \/ EnterColumn
    \/ SkipRow
    \/ ScanRow
    \/ EndColumn
    \/ Return

Spec == Init /\ [][Next]_vars

\* ------------------------------------------------- the scenario of the
\* specification: a 100 x 50 background of brightness 200 whose columns
\* 60..79 have brightness 60, with or without a speck of brightness 0 at
\* column 30, row 10; a 20 x 50 slider

Scenario == [W |-> 100, H |-> 50, sliderWidth |-> 20, sliderHeight |-> 50,
             bright |-> 200, dark |-> 60, gapFrom |-> 60, gapTo |-> 79,
             speck |-> <<30, 10>>, speckLevel |-> 0]

ScenarioBitmap(noise) ==
    LET plain ==
            << Rect(0, Scenario.W - 1, 0, Scenario.H - 1, Scenario.bright),
               Rect(Scenario.gapFrom, Scenario.gapTo, 0, Scenario.H - 1,
                    Scenario.dark) >>
    IN  IF noise
          THEN Append(plain, Speck(Scenario.speck, Scenario.speckLevel))
          ELSE plain

\* A direct call on the scenario's images, with sliderY 0 (the scenario) or 1
\* (the band then ends one row below the background).
InitScenario ==
    /\ req = NoRequest
    /\ resp = NoResponse
    /\ calls = 1
    /\ sW = Scenario.sliderWidth
    /\ sH = Scenario.sliderHeight
    /\ bgW = Scenario.W
    /\ bgH = Scenario.H
    /\ sliderY \in {0, 1}
    /\ \E noise \in BOOLEAN : bitmap = ScenarioBitmap(noise)
    /\ Fresh
    /\ pc = "start"

SpecScenario == InitScenario /\ [][Next]_vars

\* ------------------------------------------------------ the handler

\* Values of the request's JSON body.
Undefined == [t |-> "undefined"]
Num(n) == [t |-> "number", n |-> n]
EmptyString == [t |-> "string", s |-> ""]
\* a string that is not an encoded image
NotAnImage == [t |-> "string", s |-> "x"]
\* a string that encodes an image of the given width and height
Encoded(width, height, data) ==
    [t |-> "string", s |-> "data:image/png;base64,",
     width |-> width, height |-> height, data |-> data]

\* !v
Falsy(v) ==
    \/ v.t = "undefined"
    \/ v.t = "number" /\ v.n = 0
    \/ v.t = "string" /\ v.s = ""

\* Jimp.read(Buffer.from(v.replace(..), "base64")) yields an image
Decodable(v) == v.t = "string" /\ v.s = "data:image/png;base64,"

\* lines 80-82 without the check of sliderBase64
MissingParameterNoSliderCheck(body) ==
    IF Falsy(body.bgBase64) THEN "bgBase64"
    ELSE IF Falsy(body.sliderY) THEN "sliderY"
    ELSE "none"

\* lines 80-82: the first parameter found missing, "none" when all are there
MissingParameter(body) ==
    IF Falsy(body.bgBase64) THEN "bgBase64"
    ELSE IF Falsy(body.sliderBase64) THEN "sliderBase64"
    ELSE IF Falsy(body.sliderY) THEN "sliderY"
    ELSE "none"

\* lines 75-78
MethodNotAllowed ==
    /\ pc = "fetch"
    /\ req.method # "POST"
    /\ resp' = [status |-> 405, text |-> "Method Not Allowed"]
    /\ pc' = "responded"
    /\ UNCHANGED <<req, calls, bitmap, bgW, bgH, sW, sH, sliderY, startX,
                   endX, maxScore, bestX, x, y, currentColumnScore, reads,
                   result>>

\* lines 79-82
RejectMissing ==
    /\ pc = "fetch"
    /\ req.method = "POST"
    /\ MissingParameter(req.body) # "none"
    /\ resp' = [status |-> 400, text |-> MissingParameter(req.body)]
    /\ pc' = "responded"
    /\ UNCHANGED <<req, calls, bitmap, bgW, bgH, sW, sH, sliderY, startX,
                   endX, maxScore, bestX, x, y, currentColumnScore, reads,
                   result>>

\* lines 79-84: all three checks passed, the locator is called
Invoke ==
    /\ pc = "fetch"
    /\ req.method = "POST"
    /\ MissingParameter(req.body) = "none"
    /\ calls' = calls + 1
    /\ sliderY' = req.body.sliderY.n
    /\ pc' = "decode"
    /\ UNCHANGED <<req, resp, bitmap, bgW, bgH, sW, sH, startX, endX,
                   maxScore, bestX, x, y, currentColumnScore, reads, result>>

\* lines 13-24: both images are decoded, the background is made greyscale
Decode ==
    /\ pc = "decode"
    /\ Decodable(req.body.bgBase64)
    /\ Decodable(req.body.sliderBase64)
    /\ bitmap' = req.body.bgBase64.data
    /\ bgW' = req.body.bgBase64.width
    /\ bgH' = req.body.bgBase64.height
    /\ sW' = req.body.sliderBase64.width
    /\ sH' = req.body.sliderBase64.height
    /\ pc' = "start"
    /\ UNCHANGED <<req, resp, calls, sliderY, startX, endX, maxScore, bestX,
                   x, y, currentColumnScore, reads, result>>

\* lines 13-18: an argument that is no encoded image makes the call throw;
\* the handler does not catch it and returns no response
DecodeThrows ==
    /\ pc = "decode"
    /\ ~(Decodable(req.body.bgBase64) /\ Decodable(req.body.sliderBase64))
    /\ pc' = "threw"
    /\ UNCHANGED <<req, resp, calls, bitmap, bgW, bgH, sW, sH, sliderY,
                   startX, endX, maxScore, bestX, x, y, currentColumnScore,
                   reads, result>>

\* line 86
Respond ==
    /\ pc = "done"
    /\ req # NoRequest
    /\ resp' = [status |-> 200, x |-> result]
    /\ pc' = "responded"
    /\ UNCHANGED <<req, calls, bitmap, bgW, bgH, sW, sH, sliderY, startX,
                   endX, maxScore, bestX, x, y, currentColumnScore, reads,
                   result>>

\* The requests of the small inputs: a background MaxCols columns wider than
\* the narrowest slider's empty window and MaxH rows tall.
Backgrounds ==
    LET W == 2 + 2 * Margin + MaxCols
    IN  { Encoded(W, MaxH, b) : b \in Bitmaps(W, MaxH, 1) }

Sliders == { Encoded(w, h, NoPixels) : w \in SliderWidths, h \in 1 .. MaxSH }

Requests ==
    [method : {"GET", "POST"},
     body : [bgBase64 : {Undefined, EmptyString, NotAnImage} \cup Backgrounds,
             sliderBase64 : {Undefined, EmptyString, NotAnImage} \cup Sliders,
             sliderY : {Undefined} \cup { Num(n) : n \in 0 .. MaxY }]]

InitHandler ==
    /\ req \in Requests
    /\ resp = NoResponse
    /\ calls = 0
    /\ bitmap = NoPixels
    /\ bgW = 0 /\ bgH = 0 /\ sW = 0 /\ sH = 0
    /\ sliderY = 0
    /\ Fresh
    /\ pc = "fetch"

NextHandler ==
    \/ MethodNotAllowed
    \/ RejectMissing
    \/ Invoke
    \/ Decode
    \/ DecodeThrows
    \/ Start
    \/ EnterColumn
    \/ SkipRow
    \/ ScanRow
    \/ EndColumn
    \/ Return
    \/ Respond

SpecHandler == InitHandler /\ [][NextHandler]_vars

\* ------------------------------------------------- what the claims speak of

\* The search window [sliderWidth + 5, W - sliderWidth - 5) of the specification.
Window == (sW + 5) .. (bgW - sW - 6)

WindowNonEmpty == sW + 5 < bgW - sW - 5

\* The rows of the band [sliderY, sliderY + sliderHeight) that lie inside the grid.
BandRows == { r \in sliderY .. (sliderY + sH - 1) : r < bgH }

\* The contribution of row r to the score of column c: the brightness drop
\* from column c - 1 to column c when it exceeds 15, else nothing.
RowDrop(c, r) ==
    LET d == PixelAt(c - 1, r) - PixelAt(c, r)
    IN  IF d > 15 THEN d ELSE 0

RECURSIVE SumDrops(_, _)
SumDrops(c, rows) ==
    IF rows = {} THEN 0
    ELSE LET r == CHOOSE r \in rows : TRUE
         IN  RowDrop(c, r) + SumDrops(c, rows \ {r})

\* The column score of the specification.
ColumnScore(c) == SumDrops(c, BandRows)

AllZero == \A c \in Window : ColumnScore(c) = 0

\* C1: when the search window is non-empty, the returned column lies in
\* [sliderWidth + 5, W - sliderWidth - 5), all-zero grids included.
C1_WindowContainment ==
    (pc = "done" /\ WindowNonEmpty) =>
        (sW + 5 <= result /\ result < bgW - sW - 5)

\* a call returned the last column of a window of two or more columns
C1_Witness ==
    /\ pc = "done"
    /\ WindowNonEmpty
    /\ result = bgW - sW - 6
    /\ result > sW + 5

\* C2 as stated: non-empty window and every column scoring 0 return 0.
C2_AllZeroReturnsZero ==
    (pc = "done" /\ WindowNonEmpty /\ AllZero) => result = 0

\* C2 amended: when the window is non-empty and every candidate column scores
\* 0, the locator returns the leftmost window column, sliderWidth + 5.
C2_AllZeroReturnsLeftmost ==
    (pc = "done" /\ WindowNonEmpty /\ AllZero) => result = sW + 5

\* an all-zero grid with a window of two or more columns and a speck that is
\* too faint to score
C2_Witness ==
    /\ pc = "done"
    /\ sW + 6 < bgW - sW - 5
    /\ AllZero
    /\ \E i \in DOMAIN bitmap : bitmap[i].level = 85
    /\ result = sW + 5

\* C3: when the window is empty no pixel is read and the call returns 0,
\* whatever the grid and sliderY are.
C3_EmptyWindowDefault ==
    (bgW - sW - 5 <= sW + 5) =>
        /\ reads = {}
        /\ pc = "done" => result = 0
        /\ pc # "done" => ENABLED Next

\* an empty-window call returned on a speckled grid with sliderY > 0
C3_Witness ==
    /\ pc = "done"
    /\ bgW - sW - 5 <= sW + 5
    /\ sliderY > 0
    /\ \E i \in DOMAIN bitmap : bitmap[i].level = 60
    /\ result = 0

\* C4: the returned column scores at least as much as every window column
\* and strictly more than every window column to its left.
C4_LeftmostMaximum ==
    (pc = "done" /\ WindowNonEmpty) =>
        /\ result \in Window
        /\ \A c \in Window :
              /\ ColumnScore(result) >= ColumnScore(c)
              /\ c < result => ColumnScore(result) > ColumnScore(c)

\* two columns tie at a positive maximum and the left one is returned, past
\* a lower-scoring first column
C4_Witness ==
    /\ pc = "done"
    /\ \E c1, c2 \in Window :
          /\ c1 < c2
          /\ ColumnScore(c1) = ColumnScore(c2)
          /\ ColumnScore(c1) > 0
          /\ result = c1
          /\ result > sW + 5

\* C6: when sliderY + sliderHeight > H, no pixel of a row >= H is read, the
\* score of a column is accumulated from the rows sliderY <= y < H only, and
\* the scan goes on to its end.
C6_RowBoundSafety ==
    (sliderY + sH > bgH) =>
        /\ \A p \in reads : sliderY <= p[2] /\ p[2] < bgH
        /\ pc = "inner" =>
              currentColumnScore =
                  SumDrops(x, { r \in sliderY .. (bgH - 1) : r < y })
        /\ pc # "done" => ENABLED Next

\* a band that starts inside the grid and ends beyond it was scanned to the
\* end of a column with a positive score
C6_Witness ==
    /\ pc = "inner"
    /\ sliderY < bgH
    /\ sliderY + sH > bgH
    /\ y = sliderY + sH
    /\ currentColumnScore > 0

\* C8: the score of a column is the sum of the diffs that exceed 15 over the
\* in-grid rows of the band; a diff of 15 or less adds nothing.
C8_ColumnScore ==
    /\ pc = "inner" =>
          currentColumnScore = SumDrops(x, { r \in BandRows : r < y })
    /\ (pc = "inner" /\ ~(y < sliderY + sH)) =>
          currentColumnScore = ColumnScore(x)
    /\ (pc = "done" /\ WindowNonEmpty) => maxScore = ColumnScore(result)

\* a column with a diff of exactly 15 in one row and of 16 in another was
\* scored 16
C8_Witness ==
    /\ pc = "inner"
    /\ y = sliderY + sH
    /\ \E r1, r2 \in BandRows :
          /\ PixelAt(x - 1, r1) - PixelAt(x, r1) = 15
          /\ PixelAt(x - 1, r2) - PixelAt(x, r2) = 16
    /\ currentColumnScore = 16

\* C10: every pixel read lies inside the grid.
C10_InBoundsAccess ==
    \A p \in reads :
        /\ 0 <= p[1] /\ p[1] < bgW
        /\ 0 <= p[2] /\ p[2] < bgH

\* the scan read the left neighbour of the first window column, at column
\* sliderWidth + 4, and the last window column, in the last row of the grid
C10_Witness ==
    /\ pc = "done"
    /\ sliderY + sH > bgH
    /\ reads = {<<sW + 4, bgH - 1>>, <<bgW - sW - 6, bgH - 1>>}

\* C5: on the scenario's grid with sliderY = 0 the locator returns 60, with
\* and without the speck at column 30, row 10.
C5_GapEdgeScenario ==
    (pc = "done" /\ sliderY = 0) => result = 60

\* the call on the grid with the speck returned 60
C5_Witness ==
    /\ pc = "done"
    /\ sliderY = 0
    /\ bgW = 100 /\ bgH = 50 /\ sW = 20 /\ sH = 50
    /\ PixelAt(30, 10) = 0 /\ PixelAt(30, 11) = 200
    /\ PixelAt(59, 0) = 200 /\ PixelAt(60, 0) = 60
    /\ PixelAt(79, 49) = 60 /\ PixelAt(80, 49) = 200
    /\ result = 60

Absent(v) == v.t = "undefined"

AnyAbsent ==
    \/ Absent(req.body.bgBase64)
    \/ Absent(req.body.sliderBase64)
    \/ Absent(req.body.sliderY)

C9_ZeroOffsetAccepted ==
    ( /\ pc = "responded"
      /\ req.method = "POST"
      /\ Decodable(req.body.bgBase64)
      /\ Decodable(req.body.sliderBase64)
      /\ req.body.sliderY = Num(0) ) =>
        (calls = 1 /\ resp = [status |-> 200, x |-> result])

====
